---- MODULE Spec2Model ----
(***************************************************************************)
(* Model of the checkpointed batch export engines of src/app.py:           *)
(* export_engine (one CSV per group, bundled into a ZIP) and               *)
(* unified_export_engine (one CSV for all groups, built from an            *)
(* append-only NDJSON row store), together with the Streamlit script flow  *)
(* that invokes them (_resume_or_render, _resume_or_new_run, ...).         *)
(*                                                                         *)
(* Durable state (survives the end of a script run): the checkpoint file,  *)
(* the NDJSON row store, the per-group CSV files, st.session_state.        *)
(* Volatile state (lost when a script run ends or is terminated): the      *)
(* engine's position, its local variables.                                 *)
(***************************************************************************)
EXTENDS Integers, Sequences, FiniteSets, TLC

\* ---------------------------------------------------------------- bounds
NGroups == 2          \* display groups the data source can show
MaxScriptRuns == 2    \* script runs (reruns) in one behaviour
MaxFaults == 3        \* attempts that do not return the group's rows
MaxEvents == 1        \* terminations and display list changes in one behaviour

\* ---------------------------------------------------- program constants
max_tries == 3

RETRYABLE == {429, 500, 502, 503}

\* ------------------------------------------------------- input universes
Groups == 1..NGroups

\* Statuses a data-source error (APIResponseError) can carry.
Statuses == {404, 409, 429, 500, 502, 503, 504}

\* Pages the data source holds for a group: the first group is the largest,
\* the others tie.
PageCount(g) == IF g = 1 THEN 2 ELSE 1

\* A display list: group name -> page count (build_display_list's result;
\* only groups with at least one observed page are listed).
DisplayLists == {[g \in S |-> PageCount(g)] : S \in (SUBSET Groups) \ {{}}}

\* What one attempt to build a group's rows can end in.
\*   ok    : the rows of the group's pages
\*   empty : _pages_for_group returned no page (no probe matched, or every
\*           probe's APIResponseError was swallowed)
\*   api   : an APIResponseError with a status propagated
\*   exc   : any other exception propagated
Outcomes ==
    {[kind |-> "ok", status |-> 0], [kind |-> "empty", status |-> 0],
     [kind |-> "exc", status |-> 0]}
    \cup {[kind |-> "api", status |-> s] : s \in Statuses}

\* One outcome of each kind the engines tell apart: the non-API exception
\* stands for every retried failure, status 404 for every non-retried one.
CoreOutcomes ==
    {o \in Outcomes : o.kind = "api" => o.status = 404}

NoOutcome == [kind |-> "none", status |-> 0]

VARIABLES
    mode,          \* "zip" (export_engine) or "unified" (unified_export_engine)
    items,         \* the display list of the current script run
    sess,          \* st.session_state run id of this mode (0: none)
    nextRun,       \* number of run ids handed out so far
    cp,            \* the checkpoint file of the session's run directory
    store,         \* unified_rows.ndjson: sequence of rows <<group, page>>
    files,         \* export_<slug>.csv files of the run dir: group -> data rows
    artifact,      \* the bytes last handed to st.download_button
    offered,       \* a download button was rendered by the last invocation
    pc,            \* position of the script run
    phase,         \* which call site invoked the engine: "render" or "start"
    startPending,  \* the start button was pressed in this script run
    ordered,       \* engine local: groups sorted by (count, name)
    idx,           \* engine local: loop position in ordered (1-based)
    attempt,       \* retry loop local
    last,          \* outcome of the latest attempt of the current processing
    sleeps,        \* time.sleep arguments of the current processing
    rows,          \* engine local: rows (or CSV data rows) of the group
    retry_count,   \* engine local: second component of the retry result
    completed_set, \* unified engine local
    failed_set,    \* unified engine local
    hist,          \* history: what happened in this invocation / this run
    budget,        \* counters that bound a behaviour
    call           \* a function of the row pipeline under call: its
                   \* arguments, locals and return value ("none": no call)

engine == <<mode, items, sess, nextRun, cp, store, files, artifact, offered,
            pc, phase, startPending, ordered, idx, attempt, last, sleeps, rows,
            retry_count, completed_set, failed_set, hist, budget>>

vars == <<engine, call>>

disk == <<cp, store, files>>
locals == <<ordered, idx, attempt, last, sleeps, rows, retry_count,
            completed_set, failed_set>>

\* ------------------------------------------------------------- helpers
Range(s) == {s[i] : i \in 1..Len(s)}

Pow2(n) == IF n <= 0 THEN 1 ELSE IF n = 1 THEN 2 ELSE IF n = 2 THEN 4 ELSE 8

\* sorted(groups_display, key=lambda t: (t[1], t[0]))
KeyLE(L, x, y) == L[x] < L[y] \/ (L[x] = L[y] /\ x <= y)

RECURSIVE SortBy(_, _)
SortBy(L, S) ==
    IF S = {} THEN <<>>
    ELSE LET m == CHOOSE x \in S : \A y \in S : KeyLE(L, x, y)
         IN  <<m>> \o SortBy(L, S \ {m})

Sorted(L) == SortBy(L, DOMAIN L)

\* The rows built for group g when it has n pages: one row per page.
GroupRows(g, n) == [k \in 1..n |-> <<g, k>>]

\* No checkpoint file (json load fails): _load_checkpoint returns None.
NoCp == [run_id |-> 0, groups |-> <<>>, completed |-> {}, failed |-> {},
         retries |-> 0, total |-> 0, rows_written |-> 0]

Loadable(run_id) == run_id # 0 /\ cp.run_id = run_id

\* state = {...} of _init_run / _init_unified_run
InitialCheckpoint(run_id, L) ==
    [run_id |-> run_id, groups |-> Sorted(L), completed |-> {}, failed |-> {},
     retries |-> 0, total |-> Len(Sorted(L)), rows_written |-> 0]

NoHist == [attempted |-> {}, completed0 |-> {}, failed0 |-> {},
           exhausted |-> {}, started |-> {}, restarted |-> {},
           clean |-> TRUE]

EnginePcs == {"loop", "try", "write", "save", "fail"}

cur == ordered[idx]


\* ------------------------------------------------------ retry policy
\* _retry_build_rows / _retry_export_one: what the except clauses do with a
\* failed attempt. TRUE: fall through to time.sleep and the next iteration.
\*   except APIResponseError: if status not in (429, 500, 502, 503): break
\*   except Exception: (no break)
\* variant: 409 and 504 are treated as transient too
RetriesAfterWide(o) ==
    \/ o.kind = "exc"
    \/ o.kind = "api" /\ o.status \in RETRYABLE \cup {409, 504}

RetriesAfter(o) ==
    \/ o.kind = "exc"
    \/ o.kind = "api" /\ o.status \in RETRYABLE

\* time.sleep(2 ** (attempt - 1))
\* variant: time.sleep(2 ** attempt)
SleepSecondsFromTwo(a) == Pow2(a)

SleepSeconds(a) == Pow2(a - 1)

\* The attempt returned normally (return rows, attempt - 1).
Returned(o) == o.kind \in {"ok", "empty"}

\* rows of a normal return: the group's pages, none when no page was found
BuiltRows(g, o) == IF o.kind = "ok" THEN GroupRows(g, items[g]) ELSE <<>>

\* Where the engine goes with the result of the retry function.
\*   export_engine:          if data is None -> failed   (a header-only CSV is data)
\*   unified_export_engine:  if not rows     -> failed
AfterReturn(m, r) ==
    IF m = "unified" /\ r = <<>> THEN "fail" ELSE "write"

\* ---------------------------------------------------- the engine's loop
\* export_engine:          if name in cp["completed"]: continue
\* unified_export_engine:  if name in completed_set:   continue
\* variant: the loop lacks the completed test
SkipsCompletedNever(g) == FALSE

SkipsCompleted(g) ==
    IF mode = "zip" THEN g \in cp.completed ELSE g \in completed_set

\* unified_export_engine only:  if name in failed_set: continue
\* variant: the loop lacks the failed test
SkipsFailedNever(g) == FALSE

SkipsFailed(g) == mode = "unified" /\ g \in failed_set

\* _append_unified_rows: open(p, "a") and one line per row
\* variant: open(p, "w"): the store is replaced by the group's rows
_append_unified_rows_truncating(st, r) == r

_append_unified_rows(st, r) == st \o r

\* _write_csv_file: open(fp, "wb"): the file of that name is replaced
\* (g: the file's name; the groups of Spec stand for display names with
\* different slugs, SpecArchive has the names and export_<_slug(name)>.csv)
_write_csv_file(fs, g, r) ==
    [x \in DOMAIN fs \cup {g} |-> IF x = g THEN Len(r) ELSE fs[x]]

\* done == total of both engines
AllDone(c) == Cardinality(c.completed) = c.total

\* _zip_folder(run dir) / _finalize_unified_csv(run_id)
Assemble == IF mode = "zip" THEN files ELSE store

IdleLocals ==
    /\ ordered' = <<>>
    /\ idx' = 0
    /\ attempt' = 0
    /\ last' = NoOutcome
    /\ sleeps' = <<>>
    /\ rows' = <<>>
    /\ retry_count' = 0
    /\ completed_set' = {}
    /\ failed_set' = {}

\* The first lines of export_engine / unified_export_engine, up to the loop.
\* c is the checkpoint the call loads, h the history record to continue.
EngineBegin(ph, c, h) ==
    /\ pc' = "loop"
    /\ phase' = ph
    /\ ordered' = Sorted(items)
    /\ idx' = 1
    /\ attempt' = 0
    /\ last' = NoOutcome
    /\ sleeps' = <<>>
    /\ rows' = <<>>
    /\ retry_count' = 0
    /\ completed_set' = IF mode = "unified" THEN c.completed ELSE {}
    /\ failed_set' = IF mode = "unified" THEN c.failed ELSE {}
    /\ offered' = FALSE
    /\ artifact' = <<>>
    /\ hist' = [h EXCEPT !.attempted = {}, !.completed0 = c.completed,
                         !.failed0 = c.failed, !.exhausted = {}]


\* ------------------------------------------------- run initialisation
\* _resume_or_new_run / _resume_or_new_unified:
\*   run_id = st.session_state.get(...); if run_id: cp = load; if cp: return
\* variant: the loaded checkpoint is ignored
ResumesExistingNever(run_id) == FALSE

ResumesExisting(run_id) == Loadable(run_id)

\* _init_run / _init_unified_run: a new run id, a new run directory with an
\* initial checkpoint (and, unified, an emptied row store); the session
\* remembers the run id.
NewRun ==
    /\ nextRun' = nextRun + 1
    /\ sess' = nextRun + 1
    /\ cp' = InitialCheckpoint(nextRun + 1, items)
    /\ store' = <<>>
    /\ files' = <<>>

\* ------------------------------------------------------ script actions
\* A script run starts (any widget interaction; start: the export button of
\* this mode was pressed).  _resume_or_render(session run id) runs first:
\*   if run_id and _load_checkpoint(run_id): export_engine(run_id, items)
ScriptRun(start) ==
    /\ pc = "idle"
    /\ budget.runs < MaxScriptRuns
    /\ start \/ Loadable(sess)
    /\ budget' = [budget EXCEPT !.runs = @ + 1]
    /\ startPending' = start
    /\ IF Loadable(sess)
       THEN EngineBegin("render", cp, hist)
       ELSE /\ pc' = "start"
            /\ UNCHANGED <<phase, locals, offered, artifact, hist>>
    /\ UNCHANGED <<mode, items, sess, nextRun, disk>>
    /\ UNCHANGED call

\* if start_run: ... with the button not pressed: the script run ends.
NoStart ==
    /\ pc = "start"
    /\ ~startPending
    /\ pc' = "idle"
    /\ UNCHANGED <<mode, items, sess, nextRun, disk, artifact, offered, phase,
                   startPending, locals, hist, budget>>
    /\ UNCHANGED call

\* if start_run: run_id, cp = _resume_or_new_run(items); export_engine(...)
\* with a loadable checkpoint for the session's run id.
StartResume ==
    /\ pc = "start"
    /\ startPending
    /\ ResumesExisting(sess)
    /\ startPending' = FALSE
    /\ EngineBegin("start", cp, hist)
    /\ UNCHANGED <<mode, items, sess, nextRun, disk, budget>>
    /\ UNCHANGED call

\* the same with no run id in the session or no loadable checkpoint
StartNew ==
    /\ pc = "start"
    /\ startPending
    /\ ~ResumesExisting(sess)
    /\ startPending' = FALSE
    /\ NewRun
    /\ EngineBegin("start", InitialCheckpoint(nextRun + 1, items), NoHist)
    /\ UNCHANGED <<mode, items, budget>>
    /\ UNCHANGED call

\* ------------------------------------------------------ engine actions
AtGroup == pc = "loop" /\ idx <= Len(ordered)

NextGroup ==
    /\ pc' = "loop"
    /\ idx' = idx + 1
    /\ attempt' = 0
    /\ last' = NoOutcome
    /\ sleeps' = <<>>
    /\ rows' = <<>>
    /\ retry_count' = 0
    /\ UNCHANGED <<ordered, completed_set, failed_set>>

\* for name, count, canon in ordered: if name in completed: continue
SkipCompleted ==
    /\ AtGroup
    /\ SkipsCompleted(cur)
    /\ NextGroup
    /\ UNCHANGED <<mode, items, sess, nextRun, disk, artifact, offered, phase,
                   startPending, hist, budget>>
    /\ UNCHANGED call

\* unified_export_engine: if name in failed_set: continue
SkipFailed ==
    /\ AtGroup
    /\ ~SkipsCompleted(cur)
    /\ SkipsFailed(cur)
    /\ NextGroup
    /\ UNCHANGED <<mode, items, sess, nextRun, disk, artifact, offered, phase,
                   startPending, hist, budget>>
    /\ UNCHANGED call

\* ui.set_status(name, "running"); the retry function is entered
StartGroup ==
    /\ AtGroup
    /\ ~SkipsCompleted(cur)
    /\ ~SkipsFailed(cur)
    /\ pc' = "try"
    /\ attempt' = 1
    /\ hist' = [hist EXCEPT
                  !.attempted = @ \cup {cur},
                  !.started = @ \cup {cur},
                  !.restarted = IF cur \in hist.started THEN @ \cup {cur} ELSE @]
    /\ UNCHANGED <<mode, items, sess, nextRun, disk, artifact, offered, phase,
                   startPending, ordered, idx, last, sleeps, rows, retry_count,
                   completed_set, failed_set, budget>>
    /\ UNCHANGED call

\* One iteration of for attempt in range(1, max_tries + 1) of
\* _retry_export_one / _retry_build_rows, with the outcome o of the attempt.
Attempt(o) ==
    /\ pc = "try"
    /\ o.kind # "ok" => budget.faults < MaxFaults
    /\ budget' = [budget EXCEPT !.faults = IF o.kind = "ok" THEN @ ELSE @ + 1]
    /\ last' = o
    /\ IF Returned(o)
       THEN \* return rows, attempt - 1
            /\ rows' = BuiltRows(cur, o)
            /\ retry_count' = attempt - 1
            /\ pc' = AfterReturn(mode, BuiltRows(cur, o))
            /\ UNCHANGED <<attempt, sleeps>>
       ELSE IF ~RetriesAfter(o)
       THEN \* break; return [], max_tries - 1
            /\ rows' = <<>>
            /\ retry_count' = max_tries - 1
            /\ pc' = "fail"
            /\ UNCHANGED <<attempt, sleeps>>
       ELSE \* time.sleep(...), then the next iteration or the loop's end
            /\ sleeps' = Append(sleeps, SleepSeconds(attempt))
            /\ rows' = <<>>
            /\ IF attempt < max_tries
               THEN /\ attempt' = attempt + 1
                    /\ pc' = "try"
                    /\ UNCHANGED retry_count
               ELSE /\ retry_count' = max_tries - 1
                    /\ pc' = "fail"
                    /\ UNCHANGED attempt
    /\ hist' = [hist EXCEPT
                  !.clean = @ /\ o.kind = "ok",
                  !.exhausted = IF ~Returned(o) /\
                                   (~RetriesAfter(o) \/ attempt >= max_tries)
                                THEN @ \cup {cur} ELSE @]
    /\ UNCHANGED <<mode, items, sess, nextRun, disk, artifact, offered, phase,
                   startPending, ordered, idx, completed_set, failed_set>>
    /\ UNCHANGED call

\* _write_csv_file(run_id, name, data) / _append_unified_rows(run_id, rows)
Write ==
    /\ pc = "write"
    /\ IF mode = "zip"
       THEN files' = _write_csv_file(files, cur, rows) /\ UNCHANGED store
       ELSE store' = _append_unified_rows(store, rows) /\ UNCHANGED files
    /\ pc' = "save"
    /\ UNCHANGED <<mode, items, sess, nextRun, cp, artifact, offered, phase,
                   startPending, locals, hist, budget>>
    /\ UNCHANGED call

\* cp["retries"] += retry_count; cp["rows_written"] += written;
\* cp["completed"] |= {name}; name leaves cp["failed"]; the checkpoint is saved
SaveCompleted ==
    /\ pc = "save"
    /\ cp' = [cp EXCEPT
                !.retries = @ + retry_count,
                !.rows_written = IF mode = "unified" THEN @ + Len(rows) ELSE @,
                !.completed = @ \cup {cur},
                !.failed = @ \ {cur}]
    /\ NextGroup
    /\ UNCHANGED <<mode, items, sess, nextRun, store, files, artifact, offered,
                   phase, startPending, hist, budget>>
    /\ UNCHANGED call

\* cp["retries"] += retry_count; cp["failed"] |= {name}; the checkpoint is saved
MarkFailed ==
    /\ pc = "fail"
    /\ cp' = [cp EXCEPT !.retries = @ + retry_count,
                        !.failed = @ \cup {cur}]
    /\ NextGroup
    /\ UNCHANGED <<mode, items, sess, nextRun, store, files, artifact, offered,
                   phase, startPending, hist, budget>>
    /\ UNCHANGED call

\* After the loop: if done == total: the artifact is assembled and offered.
Finish ==
    /\ pc = "loop"
    /\ idx > Len(ordered)
    /\ IF AllDone(cp)
       THEN artifact' = Assemble /\ offered' = TRUE
       ELSE UNCHANGED <<artifact, offered>>
    /\ pc' = IF phase = "render" THEN "start" ELSE "idle"
    /\ IdleLocals
    /\ UNCHANGED <<mode, items, sess, nextRun, disk, phase, startPending, hist,
                   budget>>
    /\ UNCHANGED call

\* ------------------------------------------------- environment actions
EventsLeft == budget.kills + budget.rebuilds < MaxEvents

\* The script run is terminated (process killed, or the script runner stops
\* the script): everything volatile is lost, everything durable stays.
Kill ==
    /\ pc \in EnginePcs
    /\ EventsLeft
    /\ budget' = [budget EXCEPT !.kills = @ + 1]
    /\ pc' = "idle"
    /\ startPending' = FALSE
    /\ IdleLocals
    /\ hist' = [hist EXCEPT !.clean = @ /\ pc = "loop"]
    /\ UNCHANGED <<mode, items, sess, nextRun, disk, artifact, offered, phase>>
    /\ UNCHANGED call

\* build_display_list's cache expires and the data source has changed
\* (before the first run Init already draws every list).
RebuildList ==
    /\ pc = "idle"
    /\ sess # 0
    /\ EventsLeft
    /\ budget' = [budget EXCEPT !.rebuilds = @ + 1]
    /\ \E L \in DisplayLists \ {items} : items' = L
    /\ UNCHANGED <<mode, sess, nextRun, disk, artifact, offered, pc, phase,
                   startPending, locals, hist>>
    /\ UNCHANGED call

EngineInit ==
    /\ mode \in {"zip", "unified"}
    /\ items \in DisplayLists
    /\ sess = 0
    /\ nextRun = 0
    /\ cp = NoCp
    /\ store = <<>>
    /\ files = <<>>
    /\ artifact = <<>>
    /\ offered = FALSE
    /\ pc = "idle"
    /\ phase = "start"
    /\ startPending = FALSE
    /\ ordered = <<>>
    /\ idx = 0
    /\ attempt = 0
    /\ last = NoOutcome
    /\ sleeps = <<>>
    /\ rows = <<>>
    /\ retry_count = 0
    /\ completed_set = {}
    /\ failed_set = {}
    /\ hist = NoHist
    /\ budget = [runs |-> 0, kills |-> 0, faults |-> 0, rebuilds |-> 0]

NoCall == [fn |-> "none"]

Init == EngineInit /\ call = NoCall

Next ==
    \/ \E start \in BOOLEAN : ScriptRun(start)
    \/ NoStart
    \/ StartResume
    \/ StartNew
    \/ SkipCompleted
    \/ SkipFailed
    \/ StartGroup
    \/ \E o \in CoreOutcomes : Attempt(o)
    \/ Write
    \/ SaveCompleted
    \/ MarkFailed
    \/ Finish
    \/ Kill
    \/ RebuildList

Spec == Init /\ [][Next]_vars

\* The retry loop under every status: one script run, no environment action.
NextRetry ==
    \/ \E start \in BOOLEAN : ScriptRun(start)
    \/ StartNew
    \/ SkipCompleted
    \/ SkipFailed
    \/ StartGroup
    \/ \E o \in Outcomes : Attempt(o)
    \/ Write
    \/ SaveCompleted
    \/ MarkFailed
    \/ Finish
    \/ NoStart
    \/ StartResume

SpecRetry == Init /\ [][NextRetry]_vars


\* ============================================================ claims
RowsOf(st, g) == SelectSeq(st, LAMBDA r : r[1] = g)

Occurrences(st, r) == Cardinality({i \in 1..Len(st) : st[i] = r})

\* The engine has left its loop normally and is about to compare done, total.
LoopEnded == pc = "loop" /\ idx > Len(ordered)

\* C1: unified mode: after a termination and a resume to completion the row
\* store holds every completed group's rows exactly once, holds no row of a
\* group that is not in completed, and rows_written is the store's row count.
C1_CrashSafeResume ==
    (mode = "unified" /\ offered /\ budget.kills > 0) =>
        /\ \A g \in cp.completed : RowsOf(store, g) # <<>>
        /\ \A i \in 1..Len(store) : Occurrences(store, store[i]) = 1
        /\ \A i \in 1..Len(store) : store[i][1] \in cp.completed
        /\ cp.rows_written = Len(store)

\* The artifact one uninterrupted pass over the list L produces.
RECURSIVE ConcatRows(_, _)
ConcatRows(L, gs) ==
    IF gs = <<>> THEN <<>>
    ELSE GroupRows(Head(gs), L[Head(gs)]) \o ConcatRows(L, Tail(gs))

SinglePassArtifact(L) ==
    IF mode = "zip" THEN [g \in DOMAIN L |-> L[g]]
    ELSE ConcatRows(L, Sorted(L))

\* C2: with a fixed list and a failure-free source, a run interrupted only
\* between groups and re-invoked ends with the artifact of one uninterrupted
\* pass, and every group was processed exactly once.
C2_IdempotentResume ==
    (offered /\ hist.clean /\ budget.rebuilds = 0) =>
        /\ artifact = SinglePassArtifact(items)
        /\ \A g \in DOMAIN items :
               g \in hist.started /\ g \notin hist.restarted

\* a run stopped after a proper prefix of its groups, resumed and finished
C2_Witness ==
    /\ offered /\ hist.clean /\ budget.rebuilds = 0
    /\ budget.kills > 0
    /\ hist.completed0 # {} /\ hist.attempted # {}
    /\ Cardinality(DOMAIN items) = NGroups

\* C3: no step of an invocation on an existing checkpoint processes a group
\* of the checkpoint's completed set: no attempt, no write to its output.
C3_CompletedNeverReprocessed ==
    [][\A g \in cp.completed :
          cp'.run_id = cp.run_id =>
              /\ g \in hist'.attempted => g \in hist.attempted
              /\ g \in hist'.restarted => g \in hist.restarted
              /\ RowsOf(store', g) = RowsOf(store, g)
              /\ g \in DOMAIN files' => (g \in DOMAIN files /\ files'[g] = files[g])
      ]_vars

\* a resumed invocation has just stepped over a completed group
C3_Witness ==
    /\ pc = "loop" /\ idx > 1
    /\ ordered[idx - 1] \in hist.completed0
    /\ ordered[idx - 1] \notin hist.attempted
    /\ budget.runs > 1

\* C4 as stated: in both engines no step re-attempts a group of the
\* checkpoint's failed set.
C4_FailedNotReattempted ==
    [][\A g \in cp.failed :
          cp'.run_id = cp.run_id =>
              (g \in hist'.attempted => g \in hist.attempted)]_vars

\* C4 amended: the unified engine never re-attempts a group of the
\* checkpoint's failed set; an uninterrupted invocation of the archive engine
\* re-attempts every listed group that was in failed when it started.
C4_UnifiedFailedNotReattempted ==
    [][/\ mode = "unified" =>
             \A g \in cp.failed :
                 cp'.run_id = cp.run_id =>
                     (g \in hist'.attempted => g \in hist.attempted)
       /\ (mode = "zip" /\ LoopEnded) =>
             (hist.failed0 \cap Range(ordered)) \subseteq hist.attempted
      ]_vars

\* the unified engine has just stepped over a failed group
C4_Witness ==
    /\ mode = "unified"
    /\ pc = "loop" /\ idx > 1
    /\ ordered[idx - 1] \in hist.failed0
    /\ ordered[idx - 1] \notin hist.attempted

\* C5: when every attempt for a group raised, the group is in the persisted
\* failed set and every later group of the ordered list that was not yet
\* completed is still processed by the same invocation.
C5_FailureDoesNotBlock ==
    LoopEnded =>
        \A i \in 1..Len(ordered) :
            ordered[i] \in hist.exhausted =>
                /\ ordered[i] \in cp.failed
                /\ \A j \in (i + 1)..Len(ordered) :
                       ordered[j] \notin hist.completed0 =>
                           ordered[j] \in hist.attempted

\* C6: the final artifact is assembled only when every group of the run's
\* recorded ordered list is in completed.
C6_ArtifactOnlyWhenAllCompleted ==
    offered => Range(cp.groups) \subseteq cp.completed

\* C7: an invocation on a checkpoint with failed groups processes exactly the
\* listed groups that are not in completed, the failed ones included.
C7_ReinvokeRetriesFailed ==
    (LoopEnded /\ hist.failed0 # {}) =>
        hist.attempted = Range(ordered) \ hist.completed0

\* C8: one processing makes at most 3 attempts, waits 1 s before the second
\* and 2 s before the third, and a processing whose last attempt failed
\* ends with the group in failed.
C8_BoundedRetry ==
    [][/\ attempt' <= 3
       /\ pc' = "try" => Len(sleeps') = attempt' - 1
       /\ Len(sleeps') >= 1 => sleeps'[1] = 1
       /\ Len(sleeps') >= 2 => sleeps'[2] = 2
       /\ (pc = "try" /\ attempt = 3 /\ last'.kind \in {"api", "exc"}
             /\ pc' # "idle") => pc' = "fail"
       /\ (pc = "fail" /\ pc' = "loop") => cur \in cp'.failed
      ]_vars

\* three attempts were made, all failed, and the group was marked failed
C8_Witness ==
    /\ pc = "loop" /\ idx > 1
    /\ ordered[idx - 1] \in hist.exhausted
    /\ ordered[idx - 1] \in cp.failed
    /\ cp.retries = 2
    /\ budget.faults = 3

ClaimedRetryable == {409, 429, 500, 502, 503, 504}
CodeRetryable == {429, 500, 502, 503}

RetryRule(S) ==
    (pc = "try" /\ pc' # "idle") =>
        /\ (/\ \/ last'.kind = "exc"
               \/ last'.kind = "api" /\ last'.status \in S
            /\ attempt < 3)
           => (pc' = "try" /\ attempt' = attempt + 1)
        /\ (last'.kind = "api" /\ last'.status \notin S)
           => (pc' = "fail" /\ attempt' = attempt)

\* C9 as stated: statuses 409, 429, 500, 502, 503, 504 and non-API
\* exceptions are retried while fewer than 3 attempts were made; an API error
\* of any other status ends the attempt loop at once.
C9_RetryableStatuses == [][RetryRule(ClaimedRetryable)]_vars

\* C9 amended: the retried statuses are 429, 500, 502, 503.
C9_RetryableStatusesOfCode == [][RetryRule(CodeRetryable)]_vars

\* a first attempt failed with status 409 and the loop ended at once
C9_Witness ==
    /\ pc = "fail" /\ attempt = 1
    /\ last.kind = "api" /\ last.status \in {409, 504}

\* C10: a start with a loadable, unfinished checkpoint for the session's run
\* id initialises no run: run id, checkpoint and row store are kept.
C10_ReentrantStartResumes ==
    [][(pc = "start" /\ startPending /\ Loadable(sess) /\ ~AllDone(cp)) =>
          /\ nextRun' = nextRun
          /\ sess' = sess
          /\ cp' = cp
          /\ store' = store
          /\ files' = files
      ]_vars

\* the start handler has just resumed a partly done run
C10_Witness ==
    /\ mode = "unified"
    /\ phase = "start" /\ pc = "loop" /\ idx = 1
    /\ hist.completed0 # {} /\ hist.failed0 # {}
    /\ ~AllDone(cp)
    /\ cp.retries > 0
    /\ store # <<>>
    /\ nextRun = 1

\* C11: a start of an archive export in a session whose archive run has
\* completed (every recorded group in completed, the ZIP offered) initialises
\* a fresh run: a new run id and a checkpoint with empty completed and failed.
C11_FinishedArchiveRunCleared ==
    [][(/\ mode = "zip" /\ pc = "start" /\ startPending
        /\ offered /\ sess # 0
        /\ Range(cp.groups) \subseteq cp.completed) =>
          /\ nextRun' = nextRun + 1
          /\ sess' = nextRun + 1
          /\ cp'.run_id = sess'
          /\ cp'.completed = {} /\ cp'.failed = {}
      ]_vars

\* C12: a new run's checkpoint has empty completed and failed sets and lists
\* the groups by ascending page count, ties by name; when an invocation
\* starts a group, every listed group with a strictly smaller page count is
\* completed or was started earlier in the invocation.
C12_AscendingPageCountOrder ==
    [][/\ cp'.run_id # cp.run_id =>
             /\ cp'.completed = {} /\ cp'.failed = {}
             /\ Range(cp'.groups) = DOMAIN items
             /\ \A i, j \in 1..Len(cp'.groups) :
                    i < j => KeyLE(items, cp'.groups[i], cp'.groups[j])
       /\ (pc = "loop" /\ pc' = "try") =>
             \A g \in Range(ordered) :
                 items[g] < items[cur] =>
                     g \in cp.completed \/ g \in hist.attempted
      ]_vars


\* ====================================================== fix_numbered_lists
MaxLines == 4         \* lines of a text given to fix_numbered_lists

\* str.strip() / indent "  " * depth of blocks_to_md: the indentation widths
Indents == {0, 2}

None == -1

\* A line of linearized text, by what fix_numbered_lists tells apart:
\*   num     : matches ^(\s*)(\d+)\.\s+(.*)$  (blocks_to_md writes "1. ")
\*   bullet  : "- ..." nested below a list item
\*   text    : any other line (indent 2: continuation text of an item)
\*   heading : "## ..."
\*   fence   : matches ^\s*```
\*   blank   : an empty line
Lines ==
    {[kind |-> "num", indent |-> d, n |-> 1] : d \in Indents}
    \cup {[kind |-> "text", indent |-> d, n |-> 0] : d \in Indents}
    \cup {[kind |-> "bullet", indent |-> 2, n |-> 0],
          [kind |-> "heading", indent |-> 0, n |-> 0],
          [kind |-> "fence", indent |-> 0, n |-> 0],
          [kind |-> "blank", indent |-> 0, n |-> 0]}

RECURSIVE SeqsUpTo(_, _)
SeqsUpTo(S, n) ==
    IF n = 0 THEN {<<>>}
    ELSE LET shorter == SeqsUpTo(S, n - 1)
         IN  shorter \cup {Append(q, x) : q \in shorter, x \in S}

Texts == SeqsUpTo(Lines, MaxLines)

\* variant of Strip: every line loses its indentation
\* ("\n".join(l.strip() for l in out))
StripEveryLine(ls) == [i \in 1..Len(ls) |-> [ls[i] EXCEPT !.indent = 0]]

\* "\n".join(out).strip(): the first line loses its indentation
Strip(ls) ==
    IF ls = <<>> THEN ls ELSE [ls EXCEPT ![1] = [@ EXCEPT !.indent = 0]]

\* "\n".join(out).strip(): empty lines at the two ends are dropped
RECURSIVE DropBlankEnds(_)
DropBlankEnds(ls) ==
    IF ls = <<>> THEN ls
    ELSE IF Head(ls).kind = "blank" THEN DropBlankEnds(Tail(ls))
    ELSE IF ls[Len(ls)].kind = "blank" THEN DropBlankEnds(SubSeq(ls, 1, Len(ls) - 1))
    ELSE ls

\* What _row_from_page hands over: chosen = _join(sections[k]).strip(), and
\* only if chosen: the text is not empty, its first line starts at column 0
\* and neither its first nor its last line is empty.
Stripped(t) ==
    /\ t # <<>>
    /\ t[1].kind # "blank" /\ t[1].indent = 0
    /\ t[Len(t)].kind # "blank"

\* The body of for line in lines, with numbered lines inside a fence treated
\* like those outside (variant: the in_code test is missing).
FixStepInsideFences(c, line) ==
    IF line.kind = "fence"
    THEN [c EXCEPT !.in_code = ~@, !.out = Append(@, line)]
    ELSE IF line.kind = "num"
    THEN LET indent_len == line.indent
             counters == c.counter_for_indent
             restart == c.active_list_indent = None
                        \/ indent_len # c.active_list_indent
             kept == {k \in DOMAIN counters : k < indent_len}
             counted ==
                 IF restart
                 THEN [k \in kept \cup {indent_len} |->
                          IF k = indent_len THEN 1 ELSE counters[k]]
                 ELSE [counters EXCEPT ![indent_len] = @ + 1]
         IN  [c EXCEPT !.active_list_indent = indent_len,
                       !.counter_for_indent = counted,
                       !.out = Append(@, [line EXCEPT !.n = counted[indent_len]])]
    ELSE [c EXCEPT !.active_list_indent = None, !.out = Append(@, line)]

\* The body of for line in lines, on the locals c of the call.
FixStep(c, line) ==
    IF line.kind = "fence"
    THEN [c EXCEPT !.in_code = ~@, !.out = Append(@, line)]
    ELSE IF c.in_code
    THEN [c EXCEPT !.out = Append(@, line)]
    ELSE IF line.kind = "num"
    THEN LET indent_len == line.indent
             counters == c.counter_for_indent
             restart == c.active_list_indent = None
                        \/ indent_len # c.active_list_indent
             kept == {k \in DOMAIN counters : k < indent_len}
             counted ==
                 IF restart
                 THEN [k \in kept \cup {indent_len} |->
                          IF k = indent_len THEN 1 ELSE counters[k]]
                 ELSE [counters EXCEPT ![indent_len] = @ + 1]
         IN  [c EXCEPT !.active_list_indent = indent_len,
                       !.counter_for_indent = counted,
                       !.out = Append(@, [line EXCEPT !.n = counted[indent_len]])]
    ELSE [c EXCEPT !.active_list_indent = None, !.out = Append(@, line)]

InitLists ==
    /\ EngineInit
    /\ mode = "zip" /\ DOMAIN items = Groups
    /\ \E t \in {x \in Texts : Stripped(x)} :
          call = [fn |-> "fix_numbered_lists", md |-> t, pc |-> "loop",
                  out |-> <<>>, in_code |-> FALSE,
                  counter_for_indent |-> <<>>, active_list_indent |-> None,
                  ret |-> <<>>]

\* one iteration of for line in lines
FixLine ==
    /\ call.fn = "fix_numbered_lists"
    /\ call.pc = "loop"
    /\ Len(call.out) < Len(call.md)
    /\ call' = FixStep(call, call.md[Len(call.out) + 1])
    /\ UNCHANGED engine

\* return "\n".join(out).strip()
FixReturn ==
    /\ call.fn = "fix_numbered_lists"
    /\ call.pc = "loop"
    /\ Len(call.out) = Len(call.md)
    /\ call' = [call EXCEPT !.pc = "done", !.ret = Strip(DropBlankEnds(call.out))]
    /\ UNCHANGED engine

NextLists == FixLine \/ FixReturn

SpecLists == InitLists /\ [][NextLists]_vars

\* Line k ends a numbered list at indentation d: a heading, a line that is
\* neither empty nor a numbered item, at indentation d or shallower, or a
\* numbered item of a shallower list.
EndsList(t, k, d) ==
    \/ t[k].kind = "heading"
    \/ t[k].kind \notin {"num", "blank"} /\ t[k].indent <= d
    \/ t[k].kind = "num" /\ t[k].indent < d

\* The number of item i in its list: one more than the items of the same
\* indentation before it with no list end in between.
ItemNumber(t, i) ==
    1 + Cardinality({j \in 1..(i - 1) :
                        /\ t[j].kind = "num" /\ t[j].indent = t[i].indent
                        /\ \A k \in (j + 1)..(i - 1) :
                               ~EndsList(t, k, t[i].indent)})

\* C13: in the returned text the items of a numbered list at one indentation
\* are numbered 1..N in order, deeper indented lines between them not counted;
\* after a heading or a non-list line at the list's indentation or shallower
\* the numbering starts again at 1 (texts without code fences).
C13_Renumbering ==
    (/\ call.fn = "fix_numbered_lists" /\ call.pc = "done"
     /\ \A k \in 1..Len(call.md) : call.md[k].kind # "fence") =>
        \A i \in 1..Len(call.md) :
            call.md[i].kind = "num" =>
                call.ret[i].n = ItemNumber(call.md, i)


\* ======================================= select_video_or_lesson_with_type
MaxMdLines == 5       \* lines of a text given to the section extractor

\* Level-2 heading titles a page can carry.
Titles == {"Videó szöveg", "Lecke szöveg", "Jegyzet"}

\* _normalize: NFKD to ASCII, strip, lower, without " ", "_", "-", ".", ":"
_normalize(s) ==
    CASE s = "Videó szöveg" -> "videoszoveg"
      [] s = "Video szoveg" -> "videoszoveg"
      [] s = "Video szöveg" -> "videoszoveg"
      [] s = "Videó szoveg" -> "videoszoveg"
      [] s = "Videó" -> "video"
      [] s = "Video" -> "video"
      [] s = "Lecke szöveg" -> "leckeszoveg"
      [] s = "Lecke szoveg" -> "leckeszoveg"
      [] s = "Lecke" -> "lecke"
      [] s = "Lecke anyag" -> "leckeanyag"
      [] s = "Jegyzet" -> "jegyzet"

VideoVariants ==
    {"Videó szöveg", "Video szoveg", "Video szöveg", "Videó szoveg", "Videó",
     "Video"}

LessonVariants == {"Lecke szöveg", "Lecke szoveg", "Lecke", "Lecke anyag"}

\* A line of a page text, by what the extractor tells apart: a level-2
\* heading ("## " + title), a blank line, any other line.
MdLines ==
    {[kind |-> "h2", title |-> t] : t \in Titles}
    \cup {[kind |-> "text", title |-> ""], [kind |-> "blank", title |-> ""]}

MdTexts == SeqsUpTo(MdLines, MaxMdLines)

\* The content of line i of text t: a text line is told from every other
\* line by its position, a blank line is 0.
Content(t, i) == IF t[i].kind = "blank" THEN 0 ELSE i

\* str.strip() of joined lines: blank lines at both ends go
RECURSIVE StripBlank(_)
StripBlank(b) ==
    IF b = <<>> THEN b
    ELSE IF Head(b) = 0 THEN StripBlank(Tail(b))
    ELSE IF b[Len(b)] = 0 THEN StripBlank(SubSeq(b, 1, Len(b) - 1))
    ELSE b

\* _join(lines).strip()
_join(b) == StripBlank(b)

KeyIndex(secs, k) == {i \in 1..Len(secs) : secs[i].key = k}

\* The body of for ln in lines of _split_h2_sections on the locals c:
\* sections is a dict, kept here as its items in insertion order.
SplitStep(c, i) ==
    LET ln == c.md[i]
    IN  IF ln.kind = "h2"
        THEN LET at == KeyIndex(c.sections, ln.title)
             IN  [c EXCEPT
                    !.current = ln.title,
                    !.i = i + 1,
                    !.sections =
                        IF at = {} THEN Append(@, [key |-> ln.title, lines |-> <<>>])
                        ELSE [j \in 1..Len(@) |->
                                 IF j \in at THEN [key |-> ln.title, lines |-> <<>>]
                                 ELSE @[j]]]
        ELSE IF c.current # ""
        THEN [c EXCEPT
                !.i = i + 1,
                !.sections =
                    [j \in 1..Len(@) |->
                        IF @[j].key = c.current
                        THEN [@[j] EXCEPT !.lines = Append(@, Content(c.md, i))]
                        ELSE @[j]]]
        ELSE [c EXCEPT !.i = i + 1]

\* pick(variants): the first section in dict order whose normalized key is a
\* normalized variant and whose body is not blank; <<>> stands for None
RECURSIVE pick(_, _)
pick(secs, variants) ==
    IF secs = <<>> THEN <<>>
    ELSE IF /\ _normalize(Head(secs).key) \in {_normalize(v) : v \in variants}
            /\ _join(Head(secs).lines) # <<>>
    THEN _join(Head(secs).lines)
    ELSE pick(Tail(secs), variants)

select_video_or_lesson_with_type(secs) ==
    IF pick(secs, VideoVariants) # <<>>
    THEN [text |-> pick(secs, VideoVariants), type |-> "video_szoveg"]
    ELSE IF pick(secs, LessonVariants) # <<>>
    THEN [text |-> pick(secs, LessonVariants), type |-> "lecke_szoveg"]
    ELSE [text |-> <<>>, type |-> "None"]

InitSelect ==
    /\ EngineInit
    /\ mode = "zip" /\ DOMAIN items = Groups
    /\ \E t \in MdTexts :
          call = [fn |-> "select_video_or_lesson_with_type", md |-> t,
                  pc |-> "split", i |-> 1, current |-> "", sections |-> <<>>,
                  ret |-> [text |-> <<>>, type |-> "None"]]

\* one iteration of for ln in lines of _split_h2_sections
SplitLine ==
    /\ call.fn = "select_video_or_lesson_with_type"
    /\ call.pc = "split"
    /\ call.i <= Len(call.md)
    /\ call' = SplitStep(call, call.i)
    /\ UNCHANGED engine

\* the picks and the return of select_video_or_lesson_with_type
SelectReturn ==
    /\ call.fn = "select_video_or_lesson_with_type"
    /\ call.pc = "split"
    /\ call.i > Len(call.md)
    /\ call' = [call EXCEPT
                  !.pc = "done",
                  !.ret = select_video_or_lesson_with_type(call.sections)]
    /\ UNCHANGED engine

NextSelect == SplitLine \/ SelectReturn

SpecSelect == InitSelect /\ [][NextSelect]_vars

\* The body of the level-2 section that starts at line i of t: the lines up
\* to the next level-2 heading, stripped.
RECURSIVE BodyFrom(_, _)
BodyFrom(t, k) ==
    IF k > Len(t) \/ t[k].kind = "h2" THEN <<>>
    ELSE <<Content(t, k)>> \o BodyFrom(t, k + 1)

SectionBody(t, i) == StripBlank(BodyFrom(t, i + 1))

\* the non-blank bodies of the sections of t whose title matches a variant
BodiesOf(t, variants) ==
    {SectionBody(t, i) : i \in {k \in 1..Len(t) :
        /\ t[k].kind = "h2"
        /\ _normalize(t[k].title) \in {_normalize(v) : v \in variants}
        /\ SectionBody(t, k) # <<>>}}

\* C14: with a non-blank video section in the text the result is that
\* section's body tagged video; else, with a non-blank lesson section, that
\* section's body tagged lesson; else empty content and no tag.
C14_SectionExclusivity ==
    (call.fn = "select_video_or_lesson_with_type" /\ call.pc = "done") =>
        LET videos == BodiesOf(call.md, VideoVariants)
            lessons == BodiesOf(call.md, LessonVariants)
        IN  /\ videos # {} =>
                  call.ret.type = "video_szoveg" /\ call.ret.text \in videos
            /\ (videos = {} /\ lessons # {}) =>
                  call.ret.type = "lecke_szoveg" /\ call.ret.text \in lessons
            /\ (videos = {} /\ lessons = {}) =>
                  call.ret = [text |-> <<>>, type |-> "None"]


\* ================================================== _split_content_for_csv
MaxTextLen == 6       \* characters of a text given to _split_content_for_csv
MaxCell == 4          \* largest max_len given to _split_content_for_csv

\* Characters: a letter is told from every other letter by its position in
\* the text; the whitespace characters are the space and the newline.
SPACE == -1
NEWLINE == -2

CharKinds == {"x", " ", "\n"}

MkText(ks) ==
    [i \in 1..Len(ks) |->
        IF ks[i] = "x" THEN i ELSE IF ks[i] = " " THEN SPACE ELSE NEWLINE]

CellTexts == {MkText(ks) : ks \in SeqsUpTo(CharKinds, MaxTextLen)}

isspace(ch) == ch < 0

\* str.rstrip() with every whitespace character removed
\* (variant of rstrip: whitespace inside the chunk goes too)
without_whitespace(t) == SelectSeq(t, LAMBDA ch : ~isspace(ch))

\* str.rstrip()
RECURSIVE rstrip(_)
rstrip(t) ==
    IF t = <<>> THEN t
    ELSE IF isspace(t[Len(t)]) THEN rstrip(SubSeq(t, 1, Len(t) - 1))
    ELSE t

\* window.rfind("\n\n"): the highest 0-based index of a paragraph break
rfind_break(window) ==
    LET at == {k \in 0..(Len(window) - 2) :
                  window[k + 1] = NEWLINE /\ window[k + 2] = NEWLINE}
    IN  IF at = {} THEN -1 ELSE CHOOSE k \in at : \A j \in at : j <= k

\* end = min(start + max_len, n), one character further
\* (variant of window_end: the window is one character too long)
window_end_long(start, max_len, n) ==
    IF start + max_len + 1 < n THEN start + max_len + 1 ELSE n

\* end = min(start + max_len, n)
window_end(start, max_len, n) ==
    IF start + max_len < n THEN start + max_len ELSE n

\* variant of cut_threshold: every paragraph break of the window counts
cut_threshold_none(max_len) == 0

\* int(max_len * 0.6): int() rounds toward zero
cut_threshold(max_len) ==
    IF max_len >= 0 THEN (max_len * 6) \div 10 ELSE 0 - (((0 - max_len) * 6) \div 10)

\* an index of a Python slice: a negative index counts from the end, and
\* the result is kept within 0..len
slice_index(i, n) ==
    LET j == IF i < 0 THEN i + n ELSE i
    IN  IF j < 0 THEN 0 ELSE IF j > n THEN n ELSE j

\* text[start:end] of Python (0-based, end exclusive)
Slice(t, start, end) ==
    SubSeq(t, slice_index(start, Len(t)) + 1, slice_index(end, Len(t)))

\* The body of while start < n on the locals c.
ChunkStep(c) ==
    LET n == Len(c.text)
        end0 == window_end(c.start, c.max_len, n)
        window == Slice(c.text, c.start, end0)
        cut == rfind_break(window)
        at_break == cut >= cut_threshold(c.max_len)
        end == IF at_break THEN c.start + cut ELSE end0
        part == rstrip(Slice(c.text, c.start, end))
    IN  [c EXCEPT
           !.parts = IF part # <<>> THEN Append(@, part) ELSE @,
           !.start = end,
           !.breaks = IF at_break THEN @ + 1 ELSE @]

InitSplit ==
    /\ EngineInit
    /\ mode = "zip" /\ DOMAIN items = Groups
    /\ \E t \in CellTexts, L \in 1..MaxCell :
          call = [fn |-> "_split_content_for_csv", text |-> t, max_len |-> L,
                  pc |-> "entry", parts |-> <<>>, start |-> 0, breaks |-> 0,
                  ret |-> <<>>]

\* if len(text) <= max_len: return {"tartalom": text}
SplitWhole ==
    /\ call.fn = "_split_content_for_csv"
    /\ call.pc = "entry"
    /\ Len(call.text) <= call.max_len
    /\ call' = [call EXCEPT !.pc = "done", !.ret = <<call.text>>]
    /\ UNCHANGED engine

\* the first and every further iteration of while start < n
SplitChunk ==
    /\ call.fn = "_split_content_for_csv"
    /\ \/ call.pc = "entry" /\ Len(call.text) > call.max_len
       \/ call.pc = "loop"
    /\ call.start < Len(call.text)
    /\ call' = [ChunkStep(call) EXCEPT !.pc = "loop"]
    /\ UNCHANGED engine

\* out["tartalom"], out["tartalom_cont_1"], ...: the parts in order
SplitReturn ==
    /\ call.fn = "_split_content_for_csv"
    /\ call.pc = "loop"
    /\ call.start >= Len(call.text)
    /\ call' = [call EXCEPT !.pc = "done", !.ret = call.parts]
    /\ UNCHANGED engine

NextSplit == SplitWhole \/ SplitChunk \/ SplitReturn

SpecSplit == InitSplit /\ [][NextSplit]_vars

SplitDone == call.fn = "_split_content_for_csv" /\ call.pc = "done"

RECURSIVE Concat(_)
Concat(ps) == IF ps = <<>> THEN <<>> ELSE Head(ps) \o Concat(Tail(ps))

AllSpace(t) == \A i \in 1..Len(t) : isspace(t[i])

IsPrefix(p, t) == Len(p) <= Len(t) /\ SubSeq(t, 1, Len(p)) = p

\* t is the fields ps in order with nothing but whitespace between them
\* (the end of a chunk, or a chunk of whitespace only) left out
RECURSIVE Reconstructs(_, _)
Reconstructs(t, ps) ==
    IF ps = <<>> THEN AllSpace(t)
    ELSE \E k \in 0..Len(t) :
            /\ AllSpace(SubSeq(t, 1, k))
            /\ IsPrefix(Head(ps), SubSeq(t, k + 1, Len(t)))
            /\ Reconstructs(SubSeq(t, k + Len(Head(ps)) + 1, Len(t)), Tail(ps))

\* C15: the returned fields, concatenated in order, are the text with
\* nothing but whitespace at the end of chunks left out: the non-whitespace
\* characters are the text's, each once and in order.
C15_SplitRoundTrip ==
    SplitDone =>
        /\ Reconstructs(call.text, call.ret)
        /\ without_whitespace(Concat(call.ret)) = without_whitespace(call.text)
        /\ \A i \in 1..Len(call.ret) :
               i > 1 \/ Len(call.ret) > 1 => call.ret[i] = rstrip(call.ret[i])

\* a text cut at a paragraph break into several fields, whitespace left out
C15_Witness ==
    /\ SplitDone
    /\ Len(call.ret) >= 2
    /\ call.breaks >= 1
    /\ Concat(call.ret) # call.text
    /\ ~AllSpace(call.ret[2])

CeilDiv(a, b) == (a + b - 1) \div b

\* C19: a text of n > L characters without whitespace gives ceil(n / L)
\* fields, each of L characters except the last, which has the rest; and for
\* every text no field is longer than L.
C19_FieldLengths ==
    SplitDone =>
        LET n == Len(call.text)
            L == call.max_len
        IN  /\ \A i \in 1..Len(call.ret) : Len(call.ret[i]) <= L
            /\ (n > L /\ without_whitespace(call.text) = call.text) =>
                  /\ Len(call.ret) = CeilDiv(n, L)
                  /\ \A i \in 1..(Len(call.ret) - 1) : Len(call.ret[i]) = L
                  /\ Len(call.ret[Len(call.ret)]) = n - L * (CeilDiv(n, L) - 1)

\* a text without whitespace cut into three fields, the last one shorter
C19_Witness ==
    /\ SplitDone
    /\ without_whitespace(call.text) = call.text
    /\ Len(call.ret) = 3
    /\ Len(call.ret[3]) < call.max_len
    /\ Len(call.ret[1]) = call.max_len /\ call.max_len > 1


\* ============================== build_display_list and _pages_for_group
NOptions == 2         \* option ids of the grouping property seen on pages

OptionIds == 1..NOptions

\* (the long o of the second display name is written o)
DISPLAY_RENAMES ==
    [old \in {"Üzleti Modellek", "Marketing rendszerek"} |->
        IF old = "Üzleti Modellek" THEN "Milyen vállalkozást indíts"
        ELSE "Ügyfélszerzo marketing rendszerek"]

\* The option name a page carries ("": the page has the option id, no name).
PageNames == {"Üzleti Modellek", "Milyen vállalkozást indíts", ""}

\* The option's name in the live schema ("": the option is not in the schema).
SchemaNames == {"Üzleti Modellek", "Milyen vállalkozást indíts", ""}

\* The pages of the database: one page at most per option id and name.
PageSets == SUBSET [oid : OptionIds, name : PageNames]

\* f"(árva {oid[:6]}...)"
Orphan(oid) == "(árva " \o ToString(oid) \o "...)"

\* Python's order of the names (by code point): "(" < "M" < "Ü"
NameOrder ==
    <<"Marketing rendszerek", "Milyen vállalkozást indíts", "Üzleti Modellek",
      "Ügyfélszerzo marketing rendszerek">>

NameRank(nm) ==
    IF \E i \in 1..Len(NameOrder) : NameOrder[i] = nm
    THEN NOptions + 1 + (CHOOSE i \in 1..Len(NameOrder) : NameOrder[i] = nm)
    ELSE CHOOSE oid \in OptionIds : Orphan(oid) = nm

\* sorted(names)[0]
FirstName(names) == CHOOSE nm \in names : \A x \in names : NameRank(nm) <= NameRank(x)

\* collect_used_ids_and_names: used_by_id (a Counter: observed ids only)
used_by_id_of(pages) ==
    [oid \in {p.oid : p \in pages} |-> Cardinality({p \in pages : p.oid = oid})]

\* collect_used_ids_and_names: names_seen (blank names are not recorded)
names_seen_of(pages, oid) == {p.name : p \in {q \in pages : q.oid = oid}} \ {""}

\* id2current.get(oid) or (sorted(candidates)[0] if candidates else orphan)
current_name(c, oid) ==
    IF c.id2current[oid] # "" THEN c.id2current[oid]
    ELSE IF names_seen_of(c.pages, oid) # {} THEN FirstName(names_seen_of(c.pages, oid))
    ELSE Orphan(oid)

\* DISPLAY_RENAMES.get(current_name, current_name)
display_name(c, oid) ==
    IF current_name(c, oid) \in DOMAIN DISPLAY_RENAMES
    THEN DISPLAY_RENAMES[current_name(c, oid)]
    ELSE current_name(c, oid)

\* reverse_alias[new]: the old names the table maps to new
reverse_alias(new) == {old \in DOMAIN DISPLAY_RENAMES : DISPLAY_RENAMES[old] = new}

\* canon = set([current_name]) | current_candidates | reverse_alias.get(...)
canon_of(c, oid) ==
    {current_name(c, oid)} \cup names_seen_of(c.pages, oid)
    \cup reverse_alias(display_name(c, oid))

\* entry = cnt; entry["canon"] = canon: the entry of the name is replaced
\* (variant of merge_entry: overwritten, not summed and unioned)
overwrite_entry(entry, cnt, canon) == [count |-> cnt, canon |-> canon]

\* entry["count"] += cnt; entry["canon"] |= canon
merge_entry(entry, cnt, canon) ==
    [count |-> entry.count + cnt, canon |-> entry.canon \cup canon]

\* The body of for oid, cnt in used_by_id.items() on the locals c.
DisplayStep(c, oid) ==
    LET disp == display_name(c, oid)
        entry == IF disp \in DOMAIN c.display_items THEN c.display_items[disp]
                 ELSE [count |-> 0, canon |-> {}]   \* setdefault
        merged == merge_entry(entry, c.used_by_id[oid], canon_of(c, oid))
    IN  [c EXCEPT
           !.todo = @ \ {oid},
           !.display_items =
               [d \in DOMAIN @ \cup {disp} |-> IF d = disp THEN merged ELSE @[d]]]

RECURSIVE SortNames(_)
SortNames(S) ==
    IF S = {} THEN <<>>
    ELSE <<FirstName(S)>> \o SortNames(S \ {FirstName(S)})

\* sorted(canonical_names, key=lambda s: (0 if s == display_name else 1, s))
ProbeOrder(disp, canon) ==
    (IF disp \in canon THEN <<disp>> ELSE <<>>) \o SortNames(canon \ {disp})

\* query_filtered_pages(filter_=build_filter(ptype, nm)): the pages whose
\* grouping value is the name nm
query_filtered_pages(pages, nm) == {p \in pages : p.name = nm}

InitDisplay ==
    /\ EngineInit
    /\ mode = "zip" /\ DOMAIN items = Groups
    /\ \E ps \in PageSets \ {{}}, cur_names \in [OptionIds -> SchemaNames] :
          call = [fn |-> "build_display_list", pages |-> ps,
                  id2current |-> cur_names, pc |-> "build",
                  used_by_id |-> used_by_id_of(ps),
                  todo |-> DOMAIN used_by_id_of(ps),
                  display_items |-> <<>>, items |-> <<>>,
                  display |-> "", probes |-> <<>>, fetched |-> {},
                  api_errors |-> 0]

\* one iteration of for oid, cnt in used_by_id.items()
DisplayEntry ==
    /\ call.fn = "build_display_list"
    /\ call.pc = "build"
    /\ call.todo # {}
    /\ call' = DisplayStep(call, CHOOSE oid \in call.todo :
                                     \A x \in call.todo : oid <= x)
    /\ UNCHANGED engine

\* items = [(disp, count, canon) ...]; items.sort(...); return items
DisplayReturn ==
    /\ call.fn = "build_display_list"
    /\ call.pc = "build"
    /\ call.todo = {}
    /\ call' = [call EXCEPT !.pc = "listed",
                            !.items = SortNames(DOMAIN call.display_items)]
    /\ UNCHANGED engine

\* _pages_for_group(display_name, canonical_names) is entered for a group
PagesForGroup(disp) ==
    /\ call.fn = "build_display_list"
    /\ call.pc = "listed"
    /\ disp \in DOMAIN call.display_items
    /\ call' = [call EXCEPT
                  !.pc = "probe",
                  !.display = disp,
                  !.probes = ProbeOrder(disp, call.display_items[disp].canon)]
    /\ UNCHANGED engine

\* one iteration of for nm in sorted(canonical_names, ...): the query
\* answers (ok) or raises APIResponseError, which gives subset = []
Probe(ok) ==
    /\ call.fn = "build_display_list"
    /\ call.pc = "probe"
    /\ call.probes # <<>>
    /\ LET subset == IF ok THEN query_filtered_pages(call.pages, Head(call.probes))
                     ELSE {}
       IN  call' = IF subset # {}
                   THEN [call EXCEPT !.pc = "done", !.fetched = subset,
                                     !.probes = Tail(@)]      \* break
                   ELSE [call EXCEPT !.probes = Tail(@),
                                     !.api_errors = IF ok THEN @ ELSE @ + 1]
    /\ UNCHANGED engine

\* return pages, no probe having given a page
ProbeReturn ==
    /\ call.fn = "build_display_list"
    /\ call.pc = "probe"
    /\ call.probes = <<>>
    /\ call' = [call EXCEPT !.pc = "done"]
    /\ UNCHANGED engine

NextDisplay ==
    \/ DisplayEntry
    \/ DisplayReturn
    \/ \E disp \in Range(NameOrder) \cup {Orphan(oid) : oid \in OptionIds} :
          PagesForGroup(disp)
    \/ \E ok \in BOOLEAN : Probe(ok)
    \/ ProbeReturn

SpecDisplay == InitDisplay /\ [][NextDisplay]_vars

\* build_display_list has returned
Listed == call.fn = "build_display_list" /\ call.pc \in {"listed", "probe", "done"}

Observed == {p.oid : p \in call.pages}

MergedInto(d) == {oid \in Observed : display_name(call, oid) = d}

\* C16: the canonical set of a group holds the schema name and every name
\* seen on pages of every option id merged into the group, and the pages
\* fetched for the group include every page whose grouping value is a name
\* of the canonical set (no query having failed).
C16_AliasUnion ==
    (Listed /\ call.pc = "done" /\ call.api_errors = 0) =>
        LET canon == call.display_items[call.display].canon
        IN  /\ \A oid \in MergedInto(call.display) :
                   /\ call.id2current[oid] # "" => call.id2current[oid] \in canon
                   /\ names_seen_of(call.pages, oid) \subseteq canon
            /\ \A p \in call.pages : p.name \in canon => p \in call.fetched

\* C17: one group per display name; its count is the number of pages of the
\* option ids that resolve to the name, its canonical set the union of
\* theirs; every observed option id is counted in exactly one group; no
\* group has count 0 (the list build_display_list returns).
C17_MergedGroups ==
    (Listed /\ call.pc = "listed") =>
        LET disp == [oid \in Observed |-> display_name(call, oid)]
            canon == [oid \in Observed |-> canon_of(call, oid)]
            merged == [d \in DOMAIN call.display_items |->
                          {oid \in Observed : disp[oid] = d}]
        IN  /\ Len(call.items) = Cardinality(Range(call.items))
            /\ Range(call.items) = {disp[oid] : oid \in Observed}
            /\ Range(call.items) = DOMAIN call.display_items
            /\ \A d \in DOMAIN call.display_items :
                  /\ call.display_items[d].count =
                         Cardinality({p \in call.pages : p.oid \in merged[d]})
                  /\ call.display_items[d].canon =
                         UNION {canon[oid] : oid \in merged[d]}
                  /\ call.display_items[d].count > 0
            /\ \A oid \in Observed :
                  Cardinality({d \in DOMAIN call.display_items :
                                  oid \in merged[d]}) = 1

\* two option ids, one under the old name and one under the new, merged
\* into the one group of the new name with the counts summed
C17_Witness ==
    /\ Listed /\ call.pc = "listed"
    /\ Cardinality(Observed) = 2
    /\ Len(call.items) = 1
    /\ call.items[1] = "Milyen vállalkozást indíts"
    /\ \E oid \in Observed : current_name(call, oid) = "Üzleti Modellek"
    /\ \E oid \in Observed : current_name(call, oid) = "Milyen vállalkozást indíts"
    /\ call.display_items[call.items[1]].count >= 3

\* the option ids the alias table remaps to the display name d
Remapped(d) ==
    {oid \in Observed :
        /\ current_name(call, oid) \in DOMAIN DISPLAY_RENAMES
        /\ DISPLAY_RENAMES[current_name(call, oid)] = d}

\* C18: the canonical set of a group to which the alias table remaps option
\* ids holds every name seen or registered for those options and the
\* display name itself.
C18_CanonHoldsDisplayName ==
    Listed =>
        \A d \in DOMAIN call.display_items :
            Remapped(d) # {} =>
                /\ d \in call.display_items[d].canon
                /\ \A oid \in Remapped(d) :
                       /\ current_name(call, oid) \in call.display_items[d].canon
                       /\ names_seen_of(call.pages, oid)
                              \subseteq call.display_items[d].canon
                       /\ reverse_alias(d) \subseteq call.display_items[d].canon


\* ============================================================ blocks_to_md
MaxBlocks == 3        \* blocks below the page block in a page's block tree

Blocks == 1..MaxBlocks

\* The page itself: blocks_to_md(page["id"]) lists its children first.
PageBlock == 0

\* A block tree: the parent of every block (a block's parent has a lower id;
\* children are listed in the order of their ids).
BlockTrees == {par \in [Blocks -> 0..(MaxBlocks - 1)] : \A b \in Blocks : par[b] < b}

\* What client.blocks.children.list answers for a block, every time it is
\* asked: 0 for a response, else the status of the APIResponseError.
ListingStatuses == {403, 404, 429}

\* one block at most of a page fails to list its children
Listings ==
    {lst \in [Blocks \cup {PageBlock} -> {0} \cup ListingStatuses] :
        Cardinality({b \in DOMAIN lst : lst[b] # 0}) <= 1}

\* with_backoff(fn) on a call that always ends the same way: the response;
\* or, for 429/500/502/503, six tries and then the end of the for loop, which
\* returns None, on which resp.get raises AttributeError; or the re-raised
\* APIResponseError of any other status.
with_backoff(status) ==
    IF status = 0 THEN [kind |-> "ok", status |-> 0]
    ELSE IF status \in RETRYABLE THEN [kind |-> "exc", status |-> 0]
    ELSE [kind |-> "api", status |-> status]

ChildrenOf(par, b) == {c \in Blocks : par[c] = b}

\* block["type"]: a type of the text branch of blocks_to_md (its line is
\* indent + prefix + txt) and a type no branch of it names
BlockTypes == {"bulleted_list_item", "image"}

\* the if / elif chain over btype: paragraph, headings, list items, quote,
\* to_do, callout, toggle; code; divider.  There is no else branch.
HasBranch(btype) == btype = "bulleted_list_item"

RECURSIVE Ascending(_)
Ascending(S) ==
    IF S = {} THEN <<>>
    ELSE LET m == CHOOSE x \in S : \A y \in S : x <= y
         IN  <<m>> \o Ascending(S \ {m})

NoText == [raised |-> NoOutcome, lines |-> <<>>]

\* blocks_to_md(block_id, depth): the text as lines [block, indent], or the
\* exception that left the function (one response holds all the children).
\* tree: the page's blocks, [parent, btype]
RECURSIVE blocks_to_md(_, _, _, _)
RECURSIVE RenderBlocks(_, _, _, _)
\* for block in resp["results"]: the block's line (line = "" and nothing
\* appended when no branch sets it), then, if has_children,
\* blocks_to_md(block["id"], depth + 1)
RenderBlocks(tree, lst, cs, depth) ==
    IF cs = <<>> THEN NoText
    ELSE LET block == Head(cs)
             line == IF HasBranch(tree.btype[block])
                     THEN <<[block |-> block, indent |-> 2 * depth]>>
                     ELSE <<>>
             nested == IF ChildrenOf(tree.parent, block) # {}
                       THEN blocks_to_md(tree, lst, block, depth + 1)
                       ELSE NoText
         IN  IF nested.raised # NoOutcome THEN [NoText EXCEPT !.raised = nested.raised]
             ELSE LET rest == RenderBlocks(tree, lst, Tail(cs), depth)
                  IN  IF rest.raised # NoOutcome THEN rest
                      ELSE [NoText EXCEPT !.lines = line \o nested.lines \o rest.lines]

blocks_to_md(tree, lst, block_id, depth) ==
    LET resp == with_backoff(lst[block_id])
    IN  IF resp.kind # "ok" THEN [NoText EXCEPT !.raised = resp]
        ELSE LET r == RenderBlocks(tree, lst,
                                   Ascending(ChildrenOf(tree.parent, block_id)), depth)
             IN  IF r.raised # NoOutcome THEN r
                 ELSE [r EXCEPT !.lines = Strip(@)]   \* "\n".join(lines).strip()

\* What an attempt of _retry_build_rows / _retry_export_one ends in when the
\* pages of the group linearize as ret: nothing between blocks_to_md and the
\* retry function catches an exception (_row_from_page, export_one).
AttemptOutcome(ret) ==
    IF ret.raised # NoOutcome THEN ret.raised ELSE [kind |-> "ok", status |-> 0]

InitLinearize ==
    /\ EngineInit
    /\ DOMAIN items = {1}
    /\ \E par \in BlockTrees, ty \in [Blocks -> BlockTypes], lst \in Listings :
          call = [fn |-> "blocks_to_md", parent |-> par, btype |-> ty,
                  listing |-> lst, pc |-> "entry", ret |-> NoText]

\* md = blocks_to_md(page["id"]) of _row_from_page, in an attempt for a group
Linearize ==
    /\ pc = "try"
    /\ call.fn = "blocks_to_md"
    /\ call.pc = "entry"
    /\ call' = [call EXCEPT
                  !.pc = "done",
                  !.ret = blocks_to_md([parent |-> call.parent, btype |-> call.btype],
                                       call.listing, PageBlock, 0)]
    /\ UNCHANGED engine

\* the attempt ends as the linearization of the group's pages ended
LinearizedAttempt ==
    /\ call.fn = "blocks_to_md"
    /\ call.pc = "done"
    /\ Attempt(AttemptOutcome(call.ret))

NextLinearize ==
    \/ \E start \in BOOLEAN : ScriptRun(start)
    \/ NoStart
    \/ StartResume
    \/ StartNew
    \/ SkipCompleted
    \/ SkipFailed
    \/ StartGroup
    \/ Linearize
    \/ LinearizedAttempt
    \/ Write
    \/ SaveCompleted
    \/ MarkFailed
    \/ Finish

SpecLinearize == InitLinearize /\ [][NextLinearize]_vars

\* the blocks whose children blocks_to_md asks for: the page and every block
\* with children
Listed_blocks(par) == {PageBlock} \cup {b \in Blocks : ChildrenOf(par, b) # {}}

\* C20: when the listing of one block's children fails with not-found or
\* forbidden, blocks_to_md returns text (it raises nothing), and the group
\* of the page is completed with its rows, not marked failed.
C20_PermanentErrorStopsDescent ==
    (/\ call.fn = "blocks_to_md" /\ call.pc = "done"
     /\ \E b \in Listed_blocks(call.parent) : call.listing[b] \in {403, 404}) =>
        /\ call.ret.raised = NoOutcome
        /\ (pc = "loop" /\ idx > 1 /\ hist.attempted # {}) =>
              /\ ordered[idx - 1] \notin cp.failed
              /\ ordered[idx - 1] \in cp.completed

\* ============================================================ with_backoff
MaxCalm == 2          \* answers of the data source before its outage
MaxOutage == 18       \* answers in a row with which the data source fails

\* The statuses the data source fails with during an outage.
OutageStatuses == {429, 500, 404}

BACKOFF_TRIES == 6

\* for i in range(6): the loop index after a retryable failure at index i,
\* BACKOFF_TRIES when the loop is over
backoff_next(i) == i + 1

\* time.sleep((2 ** i) + 0.1), in tenths of a second
backoff_sleep(i) == 10 * (IF i <= 3 THEN Pow2(i) ELSE IF i = 4 THEN 16 ELSE 32) + 1

\* What with_backoff hands to its caller.  "resp": the response of fn;
\* "None": the for loop ended and the function fell off its end;
\* "raise": an APIResponseError of another status was re-raised.
NoReturn == [kind |-> "pending", status |-> 0]

\* resp.get("results") / resp.get("has_more") of query_all_pages,
\* query_filtered_pages and blocks_to_md: None has no get (AttributeError)
\* variant: a missing response reads as a response without results
resp_get_lenient(ret) ==
    IF ret.kind = "raise" THEN [kind |-> "api", status |-> ret.status]
    ELSE [kind |-> "ok", status |-> 0]

resp_get(ret) ==
    IF ret.kind = "resp" THEN [kind |-> "ok", status |-> 0]
    ELSE IF ret.kind = "None" THEN [kind |-> "exc", status |-> 0]
    ELSE [kind |-> "api", status |-> ret.status]

\* _pages_for_group around query_filtered_pages:
\*   except APIResponseError: subset = []      (one canonical name: pages = [])
pages_for_group(ret) ==
    IF resp_get(ret).kind = "api" THEN [kind |-> "empty", status |-> 0]
    ELSE resp_get(ret)

\* The fetches of a script run: the scan of build_display_list
\* (query_all_pages), and in every attempt for a group the page query of
\* _pages_for_group, then the block listing of blocks_to_md.
ScanKey == <<budget.runs + 1, 0, 0, "scan">>
FetchKey(site) == <<budget.runs, idx, attempt, site>>

IdleBackoff(st, m, n) ==
    [fn |-> "with_backoff", status |-> st, calm |-> m, outage |-> n, key |-> <<0, 0, 0, "none">>,
     i |-> 0, tries |-> 0, slept |-> <<>>, pc |-> "returned", ret |-> NoReturn]

InitBackoff ==
    /\ EngineInit
    /\ DOMAIN items = Groups
    /\ \E st \in OutageStatuses, m \in 0..MaxCalm, n \in 0..MaxOutage :
          call = IdleBackoff(st, m, n)

\* with_backoff is entered for the fetch with key k
BackoffEnter(k) ==
    /\ call.fn = "with_backoff"
    /\ call.pc = "returned"
    /\ call.key # k
    /\ call' = [call EXCEPT !.key = k, !.i = 0, !.tries = 0, !.slept = <<>>,
                            !.pc = "try", !.ret = NoReturn]
    /\ UNCHANGED engine

\* items = build_display_list() at the top of a script run
BeginScan ==
    /\ pc = "idle"
    /\ budget.runs < MaxScriptRuns
    /\ BackoffEnter(ScanKey)

\* pages = _pages_for_group(...) of an attempt
BeginPages ==
    /\ pc = "try"
    /\ BackoffEnter(FetchKey("pages"))

\* md = blocks_to_md(page["id"]) once the page query returned pages
BeginBlocks ==
    /\ pc = "try"
    /\ call.key = FetchKey("pages")
    /\ pages_for_group(call.ret).kind = "ok"
    /\ BackoffEnter(FetchKey("blocks"))

\* One iteration of for i in range(6): try: return fn(...) except ...
BackoffTry ==
    /\ call.fn = "with_backoff"
    /\ call.pc = "try"
    /\ IF call.calm > 0 \/ call.outage = 0
       THEN call' = [call EXCEPT !.tries = @ + 1, !.pc = "returned",
                                 !.calm = IF @ > 0 THEN @ - 1 ELSE 0,
                                 !.ret = [kind |-> "resp", status |-> 0]]
       ELSE IF call.status \in RETRYABLE
       THEN IF backoff_next(call.i) < BACKOFF_TRIES
            THEN call' = [call EXCEPT !.tries = @ + 1, !.outage = @ - 1,
                                      !.slept = Append(@, backoff_sleep(call.i)),
                                      !.i = backoff_next(call.i)]
            ELSE call' = [call EXCEPT !.tries = @ + 1, !.outage = @ - 1,
                                      !.slept = Append(@, backoff_sleep(call.i)),
                                      !.i = backoff_next(call.i),
                                      !.pc = "returned",
                                      !.ret = [kind |-> "None", status |-> 0]]
       ELSE call' = [call EXCEPT !.tries = @ + 1, !.outage = @ - 1,
                                 !.pc = "returned",
                                 !.ret = [kind |-> "raise", status |-> call.status]]
    /\ UNCHANGED engine

\* build_display_list returned: the script goes on to the engines
ScanReturned(start) ==
    /\ call.fn = "with_backoff"
    /\ call.key = ScanKey
    /\ call.pc = "returned"
    /\ resp_get(call.ret).kind = "ok"
    /\ ScriptRun(start)

\* except Exception as e: st.error(...); st.stop()
ScanStop ==
    /\ pc = "idle"
    /\ call.fn = "with_backoff"
    /\ call.key = ScanKey
    /\ call.pc = "returned"
    /\ resp_get(call.ret).kind # "ok"
    /\ budget' = [budget EXCEPT !.runs = @ + 1]
    /\ UNCHANGED <<mode, items, sess, nextRun, disk, artifact, offered, pc, phase,
                   startPending, locals, hist>>
    /\ UNCHANGED call

\* the attempt ends without pages, or with the exception of the page query
PagesAttempt ==
    /\ call.fn = "with_backoff"
    /\ call.key = FetchKey("pages")
    /\ call.pc = "returned"
    /\ pages_for_group(call.ret).kind # "ok"
    /\ Attempt(pages_for_group(call.ret))

\* the attempt ends with the rows, or with the exception of blocks_to_md
BlocksAttempt ==
    /\ call.fn = "with_backoff"
    /\ call.key = FetchKey("blocks")
    /\ call.pc = "returned"
    /\ Attempt(resp_get(call.ret))

NextBackoff ==
    \/ BeginScan
    \/ BackoffTry
    \/ \E start \in BOOLEAN : ScanReturned(start)
    \/ ScanStop
    \/ NoStart
    \/ StartResume
    \/ StartNew
    \/ SkipCompleted
    \/ SkipFailed
    \/ StartGroup
    \/ BeginPages
    \/ BeginBlocks
    \/ PagesAttempt
    \/ BlocksAttempt
    \/ Write
    \/ SaveCompleted
    \/ MarkFailed
    \/ Finish

SpecBackoff == InitBackoff /\ [][NextBackoff]_vars

\* with_backoff used all its attempts on retryable failures
BackoffExhausted ==
    /\ call.fn = "with_backoff"
    /\ call.pc = "returned"
    /\ call.ret.kind = "None"

ReattemptsPerformed == attempt - 1

\* C22: every processing of a group adds to the checkpoint's retries
\* counter the number of re-attempts it performed, so the counter is the
\* total of the re-attempts of the run; a processing ended by a
\* non-retryable error after its first attempt adds 0.
C22_RetriesCountReattempts ==
    [][(pc \in {"save", "fail"} /\ cp' # cp) =>
          cp'.retries = cp.retries + ReattemptsPerformed]_vars

\* ===================================== fix_numbered_lists: blanks and fences
ListsDone == call.fn = "fix_numbered_lists" /\ call.pc = "done"

NoFence(t) == \A k \in 1..Len(t) : t[k].kind # "fence"

\* Item i follows item j in the same numbered list: same indentation, and
\* between them only empty lines and lines indented more deeply.
NextItemOf(t, j, i) ==
    /\ j < i
    /\ t[j].kind = "num" /\ t[i].kind = "num"
    /\ t[j].indent = t[i].indent
    /\ \A k \in (j + 1)..(i - 1) :
          t[k].kind = "blank" \/ t[k].indent > t[i].indent

\* C23: an empty line, or a line indented more deeply than the active
\* numbered list, does not close the list: the next numbered item at the
\* list's indentation gets the number after that of the item before it
\* (texts without code fences).
C23_BlankAndDeeperKeepList ==
    (ListsDone /\ NoFence(call.md)) =>
        \A i, j \in 1..Len(call.md) :
            NextItemOf(call.md, j, i) => call.ret[i].n = call.ret[j].n + 1

\* Line i is inside a fenced block: it is no fence line and an odd number
\* of fence lines precede it.
InsideFence(t, i) ==
    /\ t[i].kind # "fence"
    /\ Cardinality({k \in 1..(i - 1) : t[k].kind = "fence"}) % 2 = 1

\* the lines of t outside fenced blocks, without the fence lines
Unfenced(t) ==
    LET outside(k) == t[k].kind # "fence" /\ ~InsideFence(t, k)
        F[k \in 0..Len(t)] ==
            IF k = 0 THEN <<>>
            ELSE IF outside(k) THEN Append(F[k - 1], t[k]) ELSE F[k - 1]
    IN  F[Len(t)]

\* the numbers of the numbered items of t outside fenced blocks, in order
OutsideNumbers(t, r) ==
    LET counted(k) == t[k].kind = "num" /\ ~InsideFence(t, k)
        F[k \in 0..Len(t)] ==
            IF k = 0 THEN <<>>
            ELSE IF counted(k) THEN Append(F[k - 1], r[k].n) ELSE F[k - 1]
    IN  F[Len(t)]

\* the numbers a text without fences gets, by the rule of the code applied
\* to it line by line
RECURSIVE NumbersOf(_, _, _)
NumbersOf(t, active, counters) ==
    IF t = <<>> THEN <<>>
    ELSE LET line == Head(t)
         IN  IF line.kind # "num" THEN NumbersOf(Tail(t), None, counters)
             ELSE LET d == line.indent
                      restart == active = None \/ active # d
                      kept == {k \in DOMAIN counters : k < d}
                      counted ==
                          IF restart
                          THEN [k \in kept \cup {d} |-> IF k = d THEN 1 ELSE counters[k]]
                          ELSE [counters EXCEPT ![d] = @ + 1]
                  IN  <<counted[d]>> \o NumbersOf(Tail(t), d, counted)

\* C24: every line inside a fenced block, and every fence line, is returned
\* unchanged, also when it looks like a numbered item; the lines inside a
\* fence neither advance nor reset a counter: the items outside get the
\* numbers they get in the text with the fenced blocks taken out; outside
\* fences a line that is no numbered item is returned unchanged, and the
\* returned text has the lines of the input in their order.
C24_FencesPassThrough ==
    ListsDone =>
        /\ Len(call.ret) = Len(call.md)
        /\ \A i \in 1..Len(call.md) :
              IF call.md[i].kind = "num" /\ ~InsideFence(call.md, i)
              THEN [call.ret[i] EXCEPT !.n = 1] = call.md[i]
              ELSE call.ret[i] = call.md[i]
        /\ OutsideNumbers(call.md, call.ret) = NumbersOf(Unfenced(call.md), None, <<>>)

\* a numbered line inside a closed fence, after an item of the same
\* indentation outside the fence: it is returned as it was given
C24_Witness ==
    /\ ListsDone
    /\ \E a, b, c, d \in 1..Len(call.md) :
          /\ a < b /\ b < c /\ c < d
          /\ call.md[a].kind = "num" /\ call.md[b].kind = "fence"
          /\ call.md[c].kind = "num" /\ call.md[d].kind = "fence"
          /\ call.md[c].indent = call.md[a].indent
          /\ call.ret[a].n = 1
          /\ call.ret[c] = call.md[c]

\* ======================================= _split_content_for_csv: the cut
\* an iteration of the while loop is about to cut a window
AtWindow ==
    /\ call.fn = "_split_content_for_csv"
    /\ call.pc \in {"entry", "loop"}
    /\ Len(call.text) > call.max_len
    /\ call.start < Len(call.text)

\* the window the next iteration looks at, and its last paragraph break
Window ==
    Slice(call.text, call.start,
          IF call.start + call.max_len < Len(call.text)
          THEN call.start + call.max_len ELSE Len(call.text))

\* where the chunk of the window ends when a break counts from offset
\* least on: at the window's last break, else at the window's end
ChunkEnd(least) ==
    IF rfind_break(Window) >= 0 /\ rfind_break(Window) >= least
    THEN call.start + rfind_break(Window)
    ELSE call.start + Len(Window)

\* C25 as stated: in every window, the last one included, the chunk ends
\* at the window's last paragraph break iff the break lies at or after 60%
\* of the window's length, else at the window's hard boundary.
C25_BreakAtSixtyPercentOfWindow ==
    [][(AtWindow /\ call' # call) =>
          call'.start = ChunkEnd((6 * Len(Window)) \div 10)]_vars

\* C25 as the code has it: the chunk ends at the window's last paragraph
\* break iff the break lies at or after int(0.6 * max_len) characters from
\* the window's start, in the last, shorter window too; else at the
\* window's hard boundary.
C25_BreakAtSixtyPercentOfMaxLen ==
    [][(AtWindow /\ call' # call) =>
          call'.start = ChunkEnd((6 * call.max_len) \div 10)]_vars

\* a returned split with a window cut at its paragraph break and a last
\* window shorter than max_len
C25_Witness ==
    /\ SplitDone
    /\ call.breaks > 0
    /\ Len(call.text) > call.max_len
    /\ call.start = Len(call.text)
    /\ Len(call.ret) >= 2

\* ==================================================== blocks_to_md: lines
LinearizeReturned ==
    /\ call.fn = "blocks_to_md"
    /\ call.pc = "done"
    /\ call.ret.raised = NoOutcome

\* nesting depth of a block: the blocks between it and the page
RECURSIVE DepthOf(_, _)
DepthOf(par, b) == IF par[b] = PageBlock THEN 0 ELSE 1 + DepthOf(par, par[b])

\* the blocks below block b in depth-first pre-order (children in the order
\* of the listing)
RECURSIVE PreOrder(_, _)
RECURSIVE PreOrderAll(_, _)
PreOrderAll(par, cs) ==
    IF cs = <<>> THEN <<>>
    ELSE <<Head(cs)>> \o PreOrder(par, Head(cs)) \o PreOrderAll(par, Tail(cs))

PreOrder(par, b) == PreOrderAll(par, Ascending(ChildrenOf(par, b)))

\* C26: the lines of the blocks come in depth-first pre-order, a block's
\* descendants right after the block's own line, and the line of a list,
\* paragraph or heading block at nesting depth d starts with exactly 2 * d
\* spaces, the first child of a nested block included.
C26_PreOrderAndIndentation ==
    LinearizeReturned =>
        /\ [i \in 1..Len(call.ret.lines) |-> call.ret.lines[i].block]
             = SelectSeq(PreOrder(call.parent, PageBlock),
                         LAMBDA b : HasBranch(call.btype[b]))
        /\ \A i \in 1..Len(call.ret.lines) :
              call.ret.lines[i].indent
                 = 2 * DepthOf(call.parent, call.ret.lines[i].block)

\* C27: every block of the page's tree, whatever its type tag, has a line
\* (a unit) in the returned text, a block of a type the linearizer does not
\* know as a placeholder: the text has no fewer units than the tree has
\* blocks.
C27_EveryBlockHasALine ==
    LinearizeReturned =>
        /\ \A b \in Blocks : \E i \in 1..Len(call.ret.lines) :
              call.ret.lines[i].block = b
        /\ Len(call.ret.lines) >= Cardinality(Blocks)

\* ================================================= failed versus completed
\* C28: the unified engine puts a group in failed only when the row
\* construction did not return (every attempt raised); a construction that
\* returned, with zero rows too, leads to the group's completion (its rows
\* are appended and the group is put in completed).
C28_UnifiedFailedOnlyOnException ==
    (mode = "unified" /\ pc \in {"fail", "write", "save"}) =>
        (pc = "fail" <=> ~Returned(last))

\* the page query of the attempt under way ended in a re-raised
\* APIResponseError (one canonical name: every probe of the group raised)
PageQueryRaised ==
    /\ call.fn = "with_backoff"
    /\ call.key = FetchKey("pages")
    /\ call.pc = "returned"
    /\ call.ret.kind = "raise"

\* C29: in the archive engine a group whose every page query probe raised
\* an API error gets no CSV file and is not put in completed (it is put in
\* failed).
C29_ArchiveProbeErrorsFail ==
    [][(mode = "zip" /\ pc \in {"write", "save", "fail"} /\ PageQueryRaised) =>
          /\ files' = files
          /\ cp'.completed = cp.completed
          /\ cp' # cp => cur \in cp'.failed]_vars

\* ====================================================== checkpoint sets
\* C30: in every checkpoint the engines save, completed and failed are
\* disjoint, both hold only groups of the run's group list, and a group in
\* completed is in completed in every later checkpoint of the run.
C30_CheckpointSets ==
    [][cp' # cp =>
          /\ cp'.completed \cap cp'.failed = {}
          /\ (cp'.completed \cup cp'.failed) \subseteq Range(cp'.groups)
          /\ cp'.run_id = cp.run_id => cp.completed \subseteq cp'.completed]_vars

\* ================================================================== _slug
SLUG_MAX == 80

\* Display names as sequences of characters: letters of both cases, the
\* space, the hyphen and one character that is none of these.
ArchiveNames ==
    {<<"A", "/", "B">>, <<"A", "B">>, <<"a", " ", "b">>, <<"a", "-", "b">>,
     <<"B", " ", " ", "a">>}

\* str.lower() on the letters of the names
lower(ch) == IF ch = "A" THEN "a" ELSE IF ch = "B" THEN "b" ELSE ch

is_space(ch) == ch = " "

\* \w of the regular expressions
is_word(ch) == ch \in {"a", "b", "A", "B", "_"}

\* str.strip()
RECURSIVE strip(_)
strip(t) ==
    IF t = <<>> THEN t
    ELSE IF is_space(Head(t)) THEN strip(Tail(t))
    ELSE IF is_space(t[Len(t)]) THEN strip(SubSeq(t, 1, Len(t) - 1))
    ELSE t

\* re.sub(r"[\s-]+", "_", s): every run of spaces and hyphens becomes "_"
RECURSIVE collapse(_)
collapse(t) ==
    IF t = <<>> THEN t
    ELSE IF is_space(Head(t)) \/ Head(t) = "-"
    THEN IF Len(t) > 1 /\ (is_space(t[2]) \/ t[2] = "-")
         THEN collapse(Tail(t))
         ELSE <<"_">> \o collapse(Tail(t))
    ELSE <<Head(t)>> \o collapse(Tail(t))

\* _slug(s): strip, lower, drop what is not \w, \s or "-", collapse, s[:80]
_slug(name) ==
    LET lowered == [i \in 1..Len(strip(name)) |-> lower(strip(name)[i])]
        kept == SelectSeq(lowered, LAMBDA ch : is_word(ch) \/ is_space(ch) \/ ch = "-")
        joined == collapse(kept)
    IN  IF Len(joined) > SLUG_MAX THEN SubSeq(joined, 1, SLUG_MAX) ELSE joined

\* fn = f"export_{_slug(display_name)}.csv"
FileName(name) == <<"export_">> \o _slug(name) \o <<".csv">>

\* The archive engine on groups with display names: the names of the
\* display list are different from each other (keys of build_display_list).
InitArchive ==
    /\ EngineInit
    /\ mode = "zip"
    /\ DOMAIN items = Groups
    /\ \E nm \in [Groups -> ArchiveNames] :
          /\ \A g, h \in Groups : g # h => nm[g] # nm[h]
          /\ call = [fn |-> "_slug", names |-> nm]

\* _write_csv_file(run_id, name, data) with the file name made of the slug
WriteNamed ==
    /\ pc = "write"
    /\ mode = "zip"
    /\ call.fn = "_slug"
    /\ files' = _write_csv_file(files, FileName(call.names[cur]), rows)
    /\ pc' = "save"
    /\ UNCHANGED <<mode, items, sess, nextRun, cp, store, artifact, offered, phase,
                   startPending, locals, hist, budget>>
    /\ UNCHANGED call

NextArchive ==
    \/ \E start \in BOOLEAN : ScriptRun(start)
    \/ NoStart
    \/ StartResume
    \/ StartNew
    \/ SkipCompleted
    \/ StartGroup
    \/ \E o \in CoreOutcomes : Attempt(o)
    \/ WriteNamed
    \/ SaveCompleted
    \/ MarkFailed
    \/ Finish
    \/ Kill

SpecArchive == InitArchive /\ [][NextArchive]_vars

\* C31: when an archive run completes, the ZIP holds exactly one CSV file
\* per group of the run: different completed groups have different file
\* names, so no group's file is overwritten by another's.
C31_OneFilePerGroup ==
    (call.fn = "_slug" /\ offered /\ AllDone(cp)) =>
        /\ \A g, h \in cp.completed :
              g # h => FileName(call.names[g]) # FileName(call.names[h])
        /\ Cardinality(DOMAIN artifact) = Cardinality(cp.completed)

\* ============================== _split_content_for_csv: any configuration
MaxRewind == 3        \* how far below 0 the start position is followed

\* MAX_CONTENT_CHARS = _parse_int(os.getenv(...), 40000): any integer the
\* environment holds, zero and negative values too
ConfigLens == {0 - 2, 0 - 1, 0, 1, 2, 3}

InitSplitConfig ==
    /\ EngineInit
    /\ mode = "zip" /\ DOMAIN items = Groups
    /\ \E t \in CellTexts, L \in ConfigLens :
          call = [fn |-> "_split_content_for_csv", text |-> t, max_len |-> L,
                  pc |-> "entry", parts |-> <<>>, start |-> 0, breaks |-> 0,
                  ret |-> <<>>]

\* an iteration of while start < n (the start position followed down to
\* -MaxRewind, the iterations that append or cut at a break up to MaxTextLen)
SplitChunkConfig ==
    /\ call.start >= 0 - MaxRewind
    /\ Len(call.parts) <= MaxTextLen
    /\ call.breaks <= MaxTextLen
    /\ SplitChunk

NextSplitConfig == SplitWhole \/ SplitChunkConfig \/ SplitReturn

SpecSplitConfig == InitSplitConfig /\ [][NextSplitConfig]_vars

\* C32: for every text and every integer max_len the configuration can
\* supply, zero and negative values included, each iteration of the cutting
\* loop strictly advances the start position (so the loop ends when the
\* text is exhausted).
C32_CuttingLoopAdvances ==
    [][(/\ call.fn = "_split_content_for_csv"
        /\ call.pc \in {"entry", "loop"}
        /\ call'.pc = "loop") => call'.start > call.start]_vars

\* ========================================== fix_numbered_lists, twice
\* fix_numbered_lists(md0), then fix_numbered_lists of what it returned;
\* md0 is any text, also one _row_from_page never passes (not stripped)
InitListsTwice ==
    /\ EngineInit
    /\ mode = "zip" /\ DOMAIN items = Groups
    /\ \E t \in Texts :
          call = [fn |-> "fix_numbered_lists", md |-> t, pc |-> "loop",
                  out |-> <<>>, in_code |-> FALSE,
                  counter_for_indent |-> <<>>, active_list_indent |-> None,
                  ret |-> <<>>, md0 |-> t, applied |-> 0, once |-> <<>>]

\* the function is entered again with the text it returned
FixAgain ==
    /\ call.fn = "fix_numbered_lists"
    /\ call.pc = "done"
    /\ call.applied = 0
    /\ call' = [call EXCEPT !.md = call.ret, !.once = call.ret, !.applied = 1,
                            !.pc = "loop", !.out = <<>>, !.in_code = FALSE,
                            !.counter_for_indent = <<>>,
                            !.active_list_indent = None, !.ret = <<>>]
    /\ UNCHANGED engine

NextListsTwice == FixLine \/ FixReturn \/ FixAgain

SpecListsTwice == InitListsTwice /\ [][NextListsTwice]_vars

AppliedTwice ==
    /\ call.fn = "fix_numbered_lists"
    /\ call.pc = "done"
    /\ call.applied = 1

\* C33 as stated: for every text, one whose first line is an indented
\* numbered item included, applying fix_numbered_lists twice returns what
\* applying it once returns.
C33_IdempotentOnEveryText ==
    AppliedTwice => call.ret = call.once

\* C33 on the texts _row_from_page passes (not empty, no whitespace at the
\* start, no empty line at the ends): applying fix_numbered_lists twice
\* returns what applying it once returns.
C33_IdempotentOnStrippedText ==
    (AppliedTwice /\ Stripped(call.md0)) => call.ret = call.once

\* a stripped text with a list of two items was renumbered twice
C33_Witness ==
    /\ AppliedTwice
    /\ Stripped(call.md0)
    /\ call.ret = call.once
    /\ \E i \in 1..Len(call.ret) : call.ret[i].kind = "num" /\ call.ret[i].n = 2

====
